---- MODULE Spec2Model ----
(***************************************************************************)
(* ClipCut (bot.js): a chat bot that takes a video link and two            *)
(* timestamps from a text message, keeps them as the conversation's        *)
(* pending request, and on a format choice downloads, cuts, size-checks    *)
(* and uploads the clip, removing its temporary files at the end.          *)
(*                                                                         *)
(* A string is a sequence of one-character strings.  A handler runs        *)
(* without interruption between two awaits (single-threaded event loop),   *)
(* so one action is the code from one await to the next.                   *)
(***************************************************************************)
EXTENDS Integers, Sequences, FiniteSets, TLC

(***************************************************************************)
(* Bounds of the model.                                                    *)
(***************************************************************************)
MaxMessages == 2
MaxCallbacks == 2
MaxClips == 1

(***************************************************************************)
(* Characters and small string helpers.                                    *)
(***************************************************************************)
DigitChars == {"0", "1", "2", "3", "4", "5", "6", "7", "8", "9"}

DigitVal == [c \in DigitChars |->
    CASE c = "0" -> 0 [] c = "1" -> 1 [] c = "2" -> 2 [] c = "3" -> 3
      [] c = "4" -> 4 [] c = "5" -> 5 [] c = "6" -> 6 [] c = "7" -> 7
      [] c = "8" -> 8 [] c = "9" -> 9]

DigitChar == [d \in 0..9 |-> CHOOSE c \in DigitChars : DigitVal[c] = d]

\* \s of the regular expressions and the blanks String.prototype.trim removes
IsSpace(c) == c \in {" ", "\t", "\n", "\r"}

IsDigitAt(s, p) == p >= 1 /\ p <= Len(s) /\ s[p] \in DigitChars

IsSepAt(s, p) == p >= 1 /\ p <= Len(s) /\ s[p] \in {":", "."}

\* s starts with the literal lit at position p
StartsWithAt(s, p, lit) ==
    /\ p + Len(lit) - 1 <= Len(s)
    /\ \A i \in 1..Len(lit) : s[p + i - 1] = lit[i]

\* String.prototype.trim
RECURSIVE TrimLeft(_)
TrimLeft(s) == IF s # <<>> /\ IsSpace(Head(s)) THEN TrimLeft(Tail(s)) ELSE s

RECURSIVE TrimRight(_)
TrimRight(s) ==
    IF s # <<>> /\ IsSpace(s[Len(s)]) THEN TrimRight(SubSeq(s, 1, Len(s) - 1)) ELSE s

Trim(s) == TrimRight(TrimLeft(s))

\* String.prototype.split on a set of separator characters
RECURSIVE SplitFrom(_, _, _, _)
SplitFrom(s, p, seps, cur) ==
    IF p > Len(s) THEN <<cur>>
    ELSE IF s[p] \in seps THEN <<cur>> \o SplitFrom(s, p + 1, seps, <<>>)
    ELSE SplitFrom(s, p + 1, seps, Append(cur, s[p]))

Split(s, seps) == SplitFrom(s, 1, seps, <<>>)

\* Number(str): <<n>> for a number, <<>> for NaN.  Decimal digits with an
\* optional sign, surrounding blanks ignored, the empty string is 0.
RECURSIVE DigitsValue(_, _)
DigitsValue(s, acc) ==
    IF s = <<>> THEN acc ELSE DigitsValue(Tail(s), acc * 10 + DigitVal[Head(s)])

AllDigits(s) == s # <<>> /\ \A i \in 1..Len(s) : s[i] \in DigitChars

StringToNumber(t) ==
    IF t = <<>> THEN <<0>>
    ELSE IF AllDigits(t) THEN <<DigitsValue(t, 0)>>
    ELSE IF Head(t) = "-" /\ AllDigits(Tail(t)) THEN <<0 - DigitsValue(Tail(t), 0)>>
    ELSE IF Head(t) = "+" /\ AllDigits(Tail(t)) THEN <<DigitsValue(Tail(t), 0)>>
    ELSE <<>>

Number(str) == StringToNumber(Trim(str))

isNaN(x) == x = <<>>

\* String(n) for an integer n
RECURSIVE NatToString(_)
NatToString(n) ==
    IF n < 10 THEN <<DigitChar[n]>>
    ELSE Append(NatToString(n \div 10), DigitChar[n % 10])

IntToString(n) == IF n < 0 THEN <<"-">> \o NatToString(0 - n) ELSE NatToString(n)

\* String(n).padStart(2, '0')
padStart(str) == IF Len(str) >= 2 THEN str ELSE <<"0">> \o str

pad(n) == padStart(IntToString(n))

(***************************************************************************)
(* 3. YouTube URL extraction                                               *)
(***************************************************************************)
UpperLetters == <<"A", "B", "C", "D", "E", "F", "G", "H", "I", "J", "K", "L", "M",
                  "N", "O", "P", "Q", "R", "S", "T", "U", "V", "W", "X", "Y", "Z">>

LowerLetters == <<"a", "b", "c", "d", "e", "f", "g", "h", "i", "j", "k", "l", "m",
                  "n", "o", "p", "q", "r", "s", "t", "u", "v", "w", "x", "y", "z">>

\* the i flag of the regular expression: letters compare in lower case
ToLower(c) ==
    IF \E i \in 1..26 : UpperLetters[i] = c
    THEN LowerLetters[CHOOSE i \in 1..26 : UpperLetters[i] = c]
    ELSE c

LowerCase(s) == [i \in 1..Len(s) |-> ToLower(s[i])]

\* the literal parts of the regular expression
LIT_HTTPS == <<"h", "t", "t", "p", "s", ":", "/", "/">>
LIT_HTTP == <<"h", "t", "t", "p", ":", "/", "/">>
LIT_WWW == <<"w", "w", "w", ".">>
LIT_YOUTUBE == <<"y", "o", "u", "t", "u", "b", "e", ".", "c", "o", "m", "/">>
LIT_YOUTUBE_SHORT == <<"y", "o", "u", "t", "u", ".", "b", "e", "/">>
LIT_WATCH == <<"w", "a", "t", "c", "h", "?">>
LIT_SHORTS == <<"s", "h", "o", "r", "t", "s", "/">>
LIT_LIVE == <<"l", "i", "v", "e", "/">>

\* a character of [^\s] other than the ones in `except`
IsUrlCharAt(s, p, except) ==
    p >= 1 /\ p <= Len(s) /\ ~IsSpace(s[p]) /\ s[p] \notin except

\* the position after the run of non-blank characters that contains p - 1
RECURSIVE RunEnd(_, _)
RunEnd(s, p) == IF p <= Len(s) /\ ~IsSpace(s[p]) THEN RunEnd(s, p + 1) ELSE p

\* "watch\?[^\s]*v=[^\s&]+" from b, the position after "watch?"
WatchTail(s, b) ==
    \E q \in b..(RunEnd(s, b) - 1) :
        /\ StartsWithAt(s, q, <<"v", "=">>)
        /\ IsUrlCharAt(s, q + 2, {"&"})

\* the alternatives after the optional scheme and "www."
UrlCoreAt(s, a) ==
    \/ /\ StartsWithAt(s, a, LIT_YOUTUBE)
       /\ LET b == a + Len(LIT_YOUTUBE) IN
          \/ StartsWithAt(s, b, LIT_WATCH) /\ WatchTail(s, b + Len(LIT_WATCH))
          \/ StartsWithAt(s, b, LIT_SHORTS) /\ IsUrlCharAt(s, b + Len(LIT_SHORTS), {"?"})
          \/ StartsWithAt(s, b, LIT_LIVE) /\ IsUrlCharAt(s, b + Len(LIT_LIVE), {"?"})
    \/ /\ StartsWithAt(s, a, LIT_YOUTUBE_SHORT)
       /\ IsUrlCharAt(s, a + Len(LIT_YOUTUBE_SHORT), {"?"})

\* the positions the core can start at when the match starts at p:
\* "(?:https?:\/\/)?(?:www\.)?", both optional
UrlCoreStarts(s, p) ==
    LET afterScheme ==
            {p} \cup {p + Len(l) : l \in {l \in {LIT_HTTPS, LIT_HTTP} : StartsWithAt(s, p, l)}}
    IN afterScheme \cup
       {a + Len(LIT_WWW) : a \in {a \in afterScheme : StartsWithAt(s, a, LIT_WWW)}}

UrlMatchAt(s, p) == \E a \in UrlCoreStarts(s, p) : UrlCoreAt(s, a)

\* the null result of extractYouTubeUrl
NoUrl == <<>>

\* The leftmost match; the trailing "(?:[^\s]*)?" extends it to the end of
\* the run of non-blank characters, and it is returned as found in the text.
UrlMatchStarts(low) == {p \in 1..Len(low) : UrlMatchAt(low, p)}

LeftmostMatch(text, starts) ==
    IF starts = {} THEN NoUrl
    ELSE LET p == CHOOSE q \in starts : \A r \in starts : q <= r
         IN SubSeq(text, p, RunEnd(text, p) - 1)

extractYouTubeUrl(text) == LeftmostMatch(text, UrlMatchStarts(LowerCase(text)))

(***************************************************************************)
(* 4. Timestamp parsing                                                    *)
(***************************************************************************)
\* the null result of normaliseTimestamp
NoTimestamp == <<>>

\* parts.map(Number)
MapNumber(groups) == [i \in 1..Len(groups) |-> Number(groups[i])]

\* normaliseTimestamp from the numbers of the groups on
NormaliseParts(parts) ==
    IF \E i \in 1..Len(parts) : isNaN(parts[i]) THEN NoTimestamp
    ELSE IF Len(parts) > 3 THEN NoTimestamp
    ELSE
        LET hours == IF Len(parts) = 3 THEN parts[1][1] ELSE 0
            minutes == IF Len(parts) = 3 THEN parts[2][1]
                       ELSE IF Len(parts) = 2 THEN parts[1][1] ELSE 0
            seconds == parts[Len(parts)][1]
        IN
        IF seconds < 0 \/ seconds > 59 \/ minutes < 0 \/ minutes > 59 \/ hours < 0
        THEN NoTimestamp
        ELSE pad(hours) \o <<":">> \o pad(minutes) \o <<":">> \o pad(seconds)

normaliseTimestamp(raw) == NormaliseParts(MapNumber(Split(Trim(raw), {":", "."})))

\* One "[:.]\d{1,2}" group at p (greedy): the position after it, 0 if none.
TsGroupEnd(s, p) ==
    IF IsSepAt(s, p) /\ IsDigitAt(s, p + 1)
    THEN (IF IsDigitAt(s, p + 2) THEN p + 3 ELSE p + 2)
    ELSE 0

\* After the leading digits ending before p: one or two groups, 0 if none.
OrElse(e, otherwise) == IF e = 0 THEN otherwise ELSE e

SecondGroupEnd(s, e1) == IF e1 = 0 THEN 0 ELSE OrElse(TsGroupEnd(s, e1), e1)

TsGroupsEnd(s, p) == SecondGroupEnd(s, TsGroupEnd(s, p))

\* tsPattern /(\d{1,2}(?:[:.]\d{1,2}){1,2})/ anchored at p: the position after
\* the match, 0 if it does not match at p.  Two leading digits are tried
\* before one, as the greedy quantifier does.
TsMatchEnd(s, p) ==
    OrElse(IF IsDigitAt(s, p) /\ IsDigitAt(s, p + 1) THEN TsGroupsEnd(s, p + 2) ELSE 0,
           IF IsDigitAt(s, p) THEN TsGroupsEnd(s, p + 1) ELSE 0)

\* text.match(tsPattern) with the g flag: the successive leftmost matches
\* from p on, none overlapping (an empty sequence stands for null).
RECURSIVE TsMatchesFrom(_, _)
TsMatchesFrom(s, p) ==
    IF p > Len(s) THEN <<>>
    ELSE IF TsMatchEnd(s, p) = 0 THEN TsMatchesFrom(s, p + 1)
    ELSE <<SubSeq(s, p, TsMatchEnd(s, p) - 1)>> \o TsMatchesFrom(s, TsMatchEnd(s, p))

TsMatches(text) == TsMatchesFrom(text, 1)

\* the null result of extractTimestamps
NoTimestamps == [startTime |-> NoTimestamp, endTime |-> NoTimestamp]

\* the result for the normalised first and second match
StartEnd(start, end) ==
    IF start = NoTimestamp \/ end = NoTimestamp THEN NoTimestamps
    ELSE [startTime |-> start, endTime |-> end]

\* a match that normaliseTimestamp accepts
Normalises(match) == normaliseTimestamp(match) # NoTimestamp

\* FirstTwo that skips the matches normaliseTimestamp rejects
FirstTwoValid(matches) ==
    LET valid == SelectSeq(matches, Normalises) IN
    IF Len(valid) < 2 THEN NoTimestamps
    ELSE StartEnd(normaliseTimestamp(valid[1]), normaliseTimestamp(valid[2]))

FirstTwo(matches) ==
    IF Len(matches) < 2 THEN NoTimestamps
    ELSE StartEnd(normaliseTimestamp(matches[1]), normaliseTimestamp(matches[2]))

extractTimestamps(text) == FirstTwo(TsMatches(text))

\* h * 3600 + m * 60 + s of the three numbers
Seconds(parts) == parts[1][1] * 3600 + parts[2][1] * 60 + parts[3][1]

toSeconds(hhmmss) == Seconds(MapNumber(Split(hhmmss, {":"})))

(***************************************************************************)
(* Inputs: the conversations and the message texts of the model.           *)
(***************************************************************************)
Chats == {1, 2}

\* "youtu.be/a 0:10 0:30"
TextClip == <<"y", "o", "u", "t", "u", ".", "b", "e", "/", "a", " ", "0", ":", "1", "0", " ", "0", ":", "3", "0">>

\* "cut https://www.youtube.com/watch?v=b from 1.05 to 1:02:03"
TextClipLong == <<"c", "u", "t", " ", "h", "t", "t", "p", "s", ":", "/", "/", "w", "w", "w", ".", "y", "o", "u", "t", "u", "b", "e", ".", "c", "o", "m", "/", "w", "a", "t", "c", "h", "?", "v", "=", "b", " ", "f", "r", "o", "m", " ", "1", ".", "0", "5", " ", "t", "o", " ", "1", ":", "0", "2", ":", "0", "3">>

\* "youtu.be/a 0:30 0:10"
TextReversed == <<"y", "o", "u", "t", "u", ".", "b", "e", "/", "a", " ", "0", ":", "3", "0", " ", "0", ":", "1", "0">>

\* "youtu.be/a 0:10 0:10"
TextEqual == <<"y", "o", "u", "t", "u", ".", "b", "e", "/", "a", " ", "0", ":", "1", "0", " ", "0", ":", "1", "0">>

\* "youtu.be/a?t=1.30 0:10 0:30"
TextUrlDigits == <<"y", "o", "u", "t", "u", ".", "b", "e", "/", "a", "?", "t", "=", "1", ".", "3", "0", " ", "0", ":", "1", "0", " ", "0", ":", "3", "0">>

\* "youtube.com/shorts/a"
TextUrlOnly == <<"y", "o", "u", "t", "u", "b", "e", ".", "c", "o", "m", "/", "s", "h", "o", "r", "t", "s", "/", "a">>

\* "youtu.be/a 0:70 0:80"
TextBadSeconds == <<"y", "o", "u", "t", "u", ".", "b", "e", "/", "a", " ", "0", ":", "7", "0", " ", "0", ":", "8", "0">>

\* "from 1:20 to 2:45"
TextTimesOnly == <<"f", "r", "o", "m", " ", "1", ":", "2", "0", " ", "t", "o", " ", "2", ":", "4", "5">>

\* "hello"
TextNeither == <<"h", "e", "l", "l", "o">>

\* " "
TextBlank == <<" ">>

\* msg.text of a message that is not a text message
NoText == <<>>

Texts == {TextClip, TextClipLong, TextReversed, TextEqual, TextUrlDigits, TextUrlOnly, TextBadSeconds, TextTimesOnly, TextNeither, TextBlank, NoText}

(***************************************************************************)
(* 7a. Text messages: what the handler extracts and which reply it sends.  *)
(***************************************************************************)
\* the empty slot of pendingRequests (pendingRequests[chatId] undefined)
NoRequest == [url |-> NoUrl, startTime |-> NoTimestamp, endTime |-> NoTimestamp]

\* Branch with the order test "start > end": an empty range passes
BranchAllowsEqual(text, url, timestamps) ==
    IF text = NoText THEN "ignored"
    ELSE IF url # NoUrl /\ timestamps # NoTimestamps
    THEN (IF toSeconds(timestamps.startTime) > toSeconds(timestamps.endTime)
          THEN "start_before_end"
          ELSE "format_prompt")
    ELSE IF url # NoUrl THEN "need_timestamps"
    ELSE IF timestamps # NoTimestamps THEN "need_url"
    ELSE "help"

\* the branch the 'message' handler takes, given what it extracted
Branch(text, url, timestamps) ==
    IF text = NoText THEN "ignored"
    ELSE IF url # NoUrl /\ timestamps # NoTimestamps
    THEN (IF toSeconds(timestamps.startTime) >= toSeconds(timestamps.endTime)
          THEN "start_before_end"
          ELSE "format_prompt")
    ELSE IF url # NoUrl THEN "need_timestamps"
    ELSE IF timestamps # NoTimestamps THEN "need_url"
    ELSE "help"

\* { url, startTime, endTime }
Request(url, timestamps) ==
    [url |-> url, startTime |-> timestamps.startTime, endTime |-> timestamps.endTime]

\* the handler on what it extracted: the branch it takes and the request it
\* stores in the "format_prompt" branch
Handle(text, url, timestamps) ==
    [outcome |-> Branch(text, url, timestamps), request |-> Request(url, timestamps)]

\* the handler's branch and request for each text of the model, computed once
Handled == [text \in Texts |->
    Handle(text, extractYouTubeUrl(Trim(text)), extractTimestamps(Trim(text)))]

\* a link, a pair, start before end
Complete(url, timestamps) ==
    /\ url # NoUrl
    /\ timestamps # NoTimestamps
    /\ toSeconds(timestamps.startTime) < toSeconds(timestamps.endTime)

Extract(url, timestamps) ==
    [url |-> url, timestamps |-> timestamps, request |-> Request(url, timestamps),
     complete |-> Complete(url, timestamps)]

\* What each text of the model contains, by the extractors alone: its link,
\* its pair, the request they make, and whether they are a link and a pair
\* with start before end.
Extracted == [text \in Texts |->
    Extract(extractYouTubeUrl(Trim(text)), extractTimestamps(Trim(text)))]

(***************************************************************************)
(* 6. The files of the pipeline.  A file is [uid, base, ext, size]: the    *)
(* file "<uid>_<base>.<ext>" of TMP_DIR.  uid is crypto.randomBytes(6) of  *)
(* the invocation, taken distinct for distinct invocations.                *)
(***************************************************************************)
TELEGRAM_FILE_LIMIT == 50 * 1024 * 1024

path(uid, base, ext) == [uid |-> uid, base |-> base, ext |-> ext]

pathOf(f) == path(f.uid, f.base, f.ext)

downloadPath(uid, mode) == path(uid, "raw", IF mode = "audio" THEN "webm" ELSE "mp4")

outputPath(uid, mode) == path(uid, "clip", IF mode = "audio" THEN "mp3" ELSE "mp4")

\* fs.existsSync
existsSync(files, filePath) == \E f \in files : pathOf(f) = filePath

\* the null result of findDownloadedFile
NoFile == path(0, "", "")

variants == <<"mp4", "webm", "mkv", "m4a", "opus", "mp3", "ogg">>

findDownloadedFile(files, expectedPath) ==
    IF existsSync(files, expectedPath) THEN expectedPath
    ELSE
        LET found == {i \in 1..Len(variants) :
                        existsSync(files, path(expectedPath.uid, expectedPath.base, variants[i]))}
        IN IF found = {} THEN NoFile
           ELSE path(expectedPath.uid, expectedPath.base,
                     variants[CHOOSE i \in found : \A j \in found : i <= j])

\* cleanupFile: unlinkSync throws for the paths of `failing`, which is swallowed
cleanupFile(files, filePath, failing) ==
    IF existsSync(files, filePath) /\ filePath \notin failing
    THEN {f \in files : pathOf(f) # filePath}
    ELSE files

\* cleanupGlob with a prefix that leaves the uid out: every "_raw" file goes
cleanupGlobAnyUid(files, uid, failing, readdirOk) ==
    IF readdirOk
    THEN {f \in files : f.base # "raw" \/ pathOf(f) \in failing}
    ELSE files

\* cleanupGlob whose loop is left at the first unlinkSync that throws: taken
\* here as deleting nothing once one of the listed files fails
cleanupGlobStopsAtFailure(files, uid, failing, readdirOk) ==
    IF readdirOk /\ ~\E f \in files : f.uid = uid /\ f.base = "raw" /\ pathOf(f) \in failing
    THEN {f \in files : ~(f.uid = uid /\ f.base = "raw")}
    ELSE files

\* cleanupGlob: every file of TMP_DIR whose name starts with "<uid>_raw";
\* nothing is deleted when readdirSync throws
cleanupGlob(files, uid, failing, readdirOk) ==
    IF readdirOk
    THEN {f \in files : ~(f.uid = uid /\ f.base = "raw") \/ pathOf(f) \in failing}
    ELSE files

\* cleanup without the cleanupGlob call
cleanupWithoutGlob(files, uid, mode, failing, readdirOk) ==
    cleanupFile(cleanupFile(files, downloadPath(uid, mode), failing),
                outputPath(uid, mode), failing)

\* the finally block of processClip
cleanup(files, uid, mode, failing, readdirOk) ==
    cleanupGlob(
        cleanupFile(cleanupFile(files, downloadPath(uid, mode), failing),
                    outputPath(uid, mode), failing),
        uid, failing, readdirOk)

\* statSync(outputPath).size; <<>> when statSync throws (no such file)
statSize(files, filePath) ==
    IF existsSync(files, filePath)
    THEN <<(CHOOSE f \in files : pathOf(f) = filePath).size>>
    ELSE <<>>

\* a tool writes the file: it replaces a file of the same path
writeFile(files, filePath, size) ==
    {f \in files : pathOf(f) # filePath}
        \cup {[uid |-> filePath.uid, base |-> filePath.base, ext |-> filePath.ext, size |-> size]}

(***************************************************************************)
(* What the external tools and the file system can do.                     *)
(***************************************************************************)
\* yt-dlp: its exit status and the extensions of the "<uid>_raw" files it leaves
\* and whether its stderr contains the text "ffmpeg"
DownloadOutcomes ==
    {[exit |-> 0, exts |-> e, stderrFfmpeg |-> FALSE] :
        e \in {{}, {"webm"}, {"mp4"}, {"mkv", "webm.part"}}}
        \cup {[exit |-> 1, exts |-> {"webm.part"}, stderrFfmpeg |-> b] : b \in BOOLEAN}

OutputSizes == {0, TELEGRAM_FILE_LIMIT, TELEGRAM_FILE_LIMIT + 1, 60 * 1024 * 1024}

\* ffmpeg: its exit status, the size of the output file it leaves (<<>> for
\* none) and whether its stderr contains the text "yt-dlp"
CutOutcomes ==
    {[exit |-> 0, out |-> o, stderrYtDlp |-> FALSE] : o \in {<<>>} \cup {<<n>> : n \in OutputSizes}}
        \cup {[exit |-> 1, out |-> <<>>, stderrYtDlp |-> b] : b \in BOOLEAN}

\* at most this many unlinkSync calls of one cleanup throw
MaxUnlinkFailures == 1

(***************************************************************************)
(* The errors processClip catches, and the message it shows for them.      *)
(* ytdlp and ffmpeg say whether err.message contains "yt-dlp" / "ffmpeg".  *)
(***************************************************************************)
\* no error caught
NoError == [message |-> "", ytdlp |-> FALSE, ffmpeg |-> FALSE]

ErrDownloadTool(stderrFfmpeg) ==
    [message |-> "yt-dlp failed: <stderr>", ytdlp |-> TRUE, ffmpeg |-> stderrFfmpeg]

ErrCutTool(stderrYtDlp) ==
    [message |-> "ffmpeg failed: <stderr>", ytdlp |-> stderrYtDlp, ffmpeg |-> TRUE]

ErrNotFound ==
    [message |-> "Download completed but file not found on disk.",
     ytdlp |-> FALSE, ffmpeg |-> FALSE]

ErrStat == [message |-> "ENOENT: no such file or directory, stat", ytdlp |-> FALSE, ffmpeg |-> FALSE]

ErrEmpty ==
    [message |-> "Output file is empty - the timestamps may be outside the video duration.",
     ytdlp |-> FALSE, ffmpeg |-> FALSE]

ErrSend == [message |-> "<sendAudio/sendVideo rejection>", ytdlp |-> FALSE, ffmpeg |-> FALSE]

MsgProcessing == "Processing your clip"
MsgDownloading == "Downloading from YouTube"
MsgCutting == "Cutting your clip"
MsgTooLarge == "The clip is too large to send via Telegram (> 50 MB). Try a shorter segment or choose audio-only for a smaller file."
MsgUploading == "Uploading your clip"
MsgDone == "Done! Enjoy your clip."
MsgDownloadFailed == "Could not download from YouTube. Please check that the link is valid and the video is publicly available."
MsgCutFailed == "Failed to cut the clip. The timestamps might be outside the video duration."
MsgNoPending == "I don't have a pending request for you. Please send a YouTube link with timestamps first."

\* a status text: a fixed text, followed by the raw error text if any
Status(text, detail) == [text |-> text, detail |-> detail]

\* userMessage with the "ffmpeg" test before the "yt-dlp" test
userMessageFfmpegFirst(err) ==
    IF err.ffmpeg THEN Status(MsgCutFailed, "")
    ELSE IF err.ytdlp THEN Status(MsgDownloadFailed, "")
    ELSE Status("Error: ", err.message)

\* userMessage of the catch block
userMessage(err) ==
    IF err.ytdlp THEN Status(MsgDownloadFailed, "")
    ELSE IF err.ffmpeg THEN Status(MsgCutFailed, "")
    ELSE Status("Error: ", err.message)

(***************************************************************************)
(* State.                                                                  *)
(***************************************************************************)
VARIABLES
    pendingRequests,  \* pendingRequests[chatId]: the stored request, or NoRequest
    nMsg,             \* the number of 'message' events handled so far
    nCb,              \* the number of 'callback_query' events received so far
    cb,               \* cb[i]: the i-th 'callback_query' handler and its processClip call
    fs,               \* the files of TMP_DIR
    lastComplete,     \* history: per chat, the last message that had a link and an
                      \* ordered pair: its number (seq), its request, and whether
                      \* an entry was pending when it arrived
    lastMsg,          \* history: the last 'message' event and the reply sent for it
    call              \* a call of one of the pure functions: its argument, and its
                      \* result once it has returned

vars == <<pendingRequests, nMsg, nCb, cb, fs, lastComplete, lastMsg, call>>

Handlers == 1..MaxCallbacks

CallbackData == {"format_audio", "format_video", "something_else"}

\* A handler that has not started.  pc is the await the handler is suspended
\* at; request, mode, actualDownload, stats and err are the handler's locals;
\* sendMessage, statusMsgId, edits, status, tools and sent are the calls it
\* has made so far: statusMsgId is the message_id of the status message that
\* sendMessage created, edits are its editMessageText calls, status is the
\* last updateStatus text, tools are the tools it ran, sent the uploads;
\* trace lists the stages processClip went through; unlinkThrew and
\* readdirThrew are the failures its cleanup swallowed; seq is the number of
\* the message whose request it took; toolHangs says that the tool it awaits
\* never exits.
IdleHandler ==
    [pc |-> "idle", chat |-> 0, data |-> "", request |-> NoRequest, seq |-> 0,
     mode |-> "", sendMessage |-> "", statusMsgId |-> 0, edits |-> <<>>,
     trace |-> <<>>, status |-> Status("", ""),
     actualDownload |-> NoFile, stats |-> <<>>, err |-> NoError,
     tools |-> <<>>, sent |-> <<>>, unlinkThrew |-> {}, readdirThrew |-> FALSE,
     toolHangs |-> FALSE]

NoMessage == [chat |-> 0, text |-> NoText, reply |-> ""]

NoComplete == [seq |-> 0, request |-> NoRequest, replaced |-> FALSE]

\* no call of a pure function is being looked at
NoCall == [fn |-> "", parts |-> <<>>, arg |-> <<>>, returned |-> FALSE, result |-> <<>>]

Init ==
    /\ pendingRequests = [c \in Chats |-> NoRequest]
    /\ nMsg = 0
    /\ nCb = 0
    /\ cb = [i \in Handlers |-> IdleHandler]
    /\ fs = {}
    /\ lastComplete = [c \in Chats |-> NoComplete]
    /\ lastMsg = NoMessage
    /\ call = NoCall

(***************************************************************************)
(* 2. The session store: pendingRequests[chatId] = ..., delete             *)
(***************************************************************************)
\* put that keeps an entry already pending
putKeepsExisting(requests, chatId, request) ==
    IF requests[chatId] = NoRequest THEN [requests EXCEPT ![chatId] = request] ELSE requests

put(requests, chatId, request) == [requests EXCEPT ![chatId] = request]

\* take without the delete
takeKeepsEntry(requests, chatId) == requests

take(requests, chatId) == [requests EXCEPT ![chatId] = NoRequest]

(***************************************************************************)
(* bot.on('message'): the whole handler.  Everything up to the store is    *)
(* synchronous; after its one await (sendMessage) the handler returns.     *)
(***************************************************************************)
\* stored that drops the pending entry when start >= end is rejected
storedClearsOnReject(requests, chatId, handled) ==
    IF handled.outcome = "format_prompt" THEN put(requests, chatId, handled.request)
    ELSE IF handled.outcome = "start_before_end" THEN take(requests, chatId)
    ELSE requests

\* the store after the handler: written in the "format_prompt" branch only
stored(requests, chatId, handled) ==
    IF handled.outcome = "format_prompt" THEN put(requests, chatId, handled.request)
    ELSE requests

OnMessage(chat, text) ==
    /\ nMsg < MaxMessages
    /\ nMsg' = nMsg + 1
    /\ pendingRequests' = stored(pendingRequests, chat, Handled[text])
    /\ UNCHANGED <<nCb, cb, fs>>

\* the last complete message of each chat after a message with extract e
completed(last, chat, seq, e, replaced) ==
    IF e.complete
    THEN [last EXCEPT ![chat] = [seq |-> seq, request |-> e.request, replaced |-> replaced]]
    ELSE last

\* history of OnMessage: the last complete message of the chat
RecordComplete(chat, text) ==
    lastComplete' = completed(lastComplete, chat, nMsg + 1, Extracted[text],
                              pendingRequests[chat] # NoRequest)

\* history of OnMessage: the message itself
RecordMessage(chat, text) ==
    lastMsg' = [chat |-> chat, text |-> text, reply |-> Handled[text].outcome]

(***************************************************************************)
(* bot.on('callback_query')                                                *)
(***************************************************************************)
\* updateStatus that sends the text as a new message
updateStatusSendsMessage(h, text) ==
    [h EXCEPT !.status = text, !.sendMessage = text.text]

\* updateStatus: editMessageText on the status message; a rejection of the
\* edit is ignored
updateStatus(h, text) ==
    [h EXCEPT !.status = text,
              !.edits = Append(@, [message_id |-> h.statusMsgId, text |-> text])]

\* the event arrives: the handler calls answerCallbackQuery and awaits it
OnCallbackQuery(chat, data) ==
    /\ nCb < MaxCallbacks
    /\ nCb' = nCb + 1
    /\ cb' = [cb EXCEPT ![nCb + 1] =
                [IdleHandler EXCEPT !.pc = "answerCallbackQuery", !.chat = chat, !.data = data]]
    /\ UNCHANGED <<pendingRequests, nMsg, fs>>

\* the mode of a callback datum, "" for an unknown one
modeOf(data) ==
    IF data = "format_audio" THEN "audio"
    ELSE IF data = "format_video" THEN "video"
    ELSE ""

\* onAnswered without the return after the "no pending request" reply
onAnsweredMissingReturn(h, request, seq) ==
    IF modeOf(h.data) = ""
    THEN [h EXCEPT !.pc = "returned",
                   !.sendMessage = IF request = NoRequest THEN MsgNoPending ELSE @]
    ELSE [h EXCEPT !.pc = "editMessageReplyMarkup",
                   !.sendMessage = IF request = NoRequest THEN MsgNoPending ELSE @,
                   !.request = request,
                   !.seq = seq,
                   !.mode = modeOf(h.data)]

\* The handler after answerCallbackQuery resolved, up to its next await:
\* with no request it replies that nothing is pending and returns (the
\* await of that sendMessage is its last statement); an unknown datum is
\* ignored; otherwise it keeps the request and awaits editMessageReplyMarkup.
onAnswered(h, request, seq) ==
    IF request = NoRequest
    THEN [h EXCEPT !.pc = "returned", !.sendMessage = MsgNoPending]
    ELSE IF modeOf(h.data) = ""
    THEN [h EXCEPT !.pc = "returned"]
    ELSE [h EXCEPT !.pc = "editMessageReplyMarkup",
                   !.request = request,
                   !.seq = seq,
                   !.mode = modeOf(h.data)]

\* answerCallbackQuery settles.  Rejected: the handler ends there.  Resolved:
\* the handler reads the store and, for a request and a known datum, deletes
\* the entry in the same turn.
AnswerSettled(i, ok) ==
    LET h == cb[i]
        after == onAnswered(h, pendingRequests[h.chat], lastComplete[h.chat].seq)
    IN
    /\ h.pc = "answerCallbackQuery"
    /\ cb' = [cb EXCEPT ![i] = IF ok THEN after ELSE [h EXCEPT !.pc = "rejected"]]
    /\ pendingRequests' =
          IF ok /\ after.pc = "editMessageReplyMarkup"
          THEN take(pendingRequests, h.chat)
          ELSE pendingRequests
    /\ UNCHANGED <<nMsg, nCb, fs>>

\* editMessageReplyMarkup settles (a rejection is ignored): the handler
\* sends the status message and awaits it
ReplyMarkupSettled(i) ==
    /\ cb[i].pc = "editMessageReplyMarkup"
    /\ cb' = [cb EXCEPT ![i].pc = "sendMessage"]
    /\ UNCHANGED <<pendingRequests, nMsg, nCb, fs>>

\* sendMessage of the status message settles.  Rejected: the handler ends.
\* Resolved: processClip starts and awaits its first updateStatus.
StatusMessageSettled(i, ok) ==
    /\ cb[i].pc = "sendMessage"
    /\ IF ok
       THEN cb' = [cb EXCEPT ![i] =
                     updateStatus([cb[i] EXCEPT !.pc = "updateStatus_download",
                                                !.sendMessage = MsgProcessing,
                                                !.statusMsgId = i,
                                                !.trace = <<"DOWNLOADING">>],
                                  Status(MsgDownloading, ""))]
       ELSE cb' = [cb EXCEPT ![i].pc = "rejected"]
    /\ UNCHANGED <<pendingRequests, nMsg, nCb, fs>>

(***************************************************************************)
(* processClip.  updateStatus never throws: whether editMessageText        *)
(* resolves or rejects, the code after the await is the same.              *)
(***************************************************************************)
\* the catch block: the failure message is shown with updateStatus
catch(h, err) ==
    updateStatus([h EXCEPT !.pc = "updateStatus_failed",
              !.err = err,
              !.trace = Append(@, "FAILED")], userMessage(err))

\* Step 1: the status is shown, yt-dlp is started
DownloadStarted(i) ==
    /\ cb[i].pc = "updateStatus_download"
    /\ cb' = [cb EXCEPT ![i].pc = "yt-dlp", ![i].tools = Append(@, "yt-dlp")]
    /\ UNCHANGED <<pendingRequests, nMsg, nCb, fs>>

\* after yt-dlp resolved: findDownloadedFile, then step 2 begins
downloaded(h, files, uid) ==
    LET actualDownload == findDownloadedFile(files, downloadPath(uid, h.mode)) IN
    IF actualDownload = NoFile THEN catch(h, ErrNotFound)
    ELSE updateStatus([h EXCEPT !.pc = "updateStatus_cut",
                   !.actualDownload = actualDownload,
                   !.trace = Append(@, "CUTTING")], Status(MsgCutting, ""))

\* yt-dlp exits, leaving its files
DownloadExited(i, outcome) ==
    LET h == cb[i]
        files == fs \cup {[uid |-> i, base |-> "raw", ext |-> e, size |-> 1] : e \in outcome.exts}
    IN
    /\ h.pc = "yt-dlp"
    /\ fs' = files
    /\ cb' = [cb EXCEPT ![i] =
                IF outcome.exit # 0 THEN catch(h, ErrDownloadTool(outcome.stderrFfmpeg))
                ELSE downloaded(h, files, i)]
    /\ UNCHANGED <<pendingRequests, nMsg, nCb>>

\* Step 2: the status is shown, ffmpeg is started
CutStarted(i) ==
    /\ cb[i].pc = "updateStatus_cut"
    /\ cb' = [cb EXCEPT ![i].pc = "ffmpeg", ![i].tools = Append(@, "ffmpeg")]
    /\ UNCHANGED <<pendingRequests, nMsg, nCb, fs>>

\* sizeCheck without the test for an empty file
sizeCheckNoEmptyTest(h, files, uid) ==
    LET stats == statSize(files, outputPath(uid, h.mode))
        checking == [h EXCEPT !.trace = Append(@, "SIZE_CHECK"), !.stats = stats]
    IN
    IF stats = <<>> THEN catch(checking, ErrStat)
    ELSE IF stats[1] > TELEGRAM_FILE_LIMIT
    THEN updateStatus([checking EXCEPT !.pc = "updateStatus_tooLarge",
                          !.trace = Append(@, "TOO_LARGE")], Status(MsgTooLarge, ""))
    ELSE updateStatus([checking EXCEPT !.pc = "updateStatus_upload",
                          !.trace = Append(@, "UPLOADING")], Status(MsgUploading, ""))

\* sizeCheck without the test against TELEGRAM_FILE_LIMIT
sizeCheckNoLimit(h, files, uid) ==
    LET stats == statSize(files, outputPath(uid, h.mode))
        checking == [h EXCEPT !.trace = Append(@, "SIZE_CHECK"), !.stats = stats]
    IN
    IF stats = <<>> THEN catch(checking, ErrStat)
    ELSE IF stats[1] = 0 THEN catch(checking, ErrEmpty)
    ELSE updateStatus([checking EXCEPT !.pc = "updateStatus_upload",
                          !.trace = Append(@, "UPLOADING")], Status(MsgUploading, ""))

\* sizeCheck without the return after the "too large" status: the upload follows
sizeCheckMissingReturn(h, files, uid) ==
    LET stats == statSize(files, outputPath(uid, h.mode))
        checking == [h EXCEPT !.trace = Append(@, "SIZE_CHECK"), !.stats = stats]
    IN
    IF stats = <<>> THEN catch(checking, ErrStat)
    ELSE IF stats[1] > TELEGRAM_FILE_LIMIT
    THEN updateStatus([checking EXCEPT !.pc = "updateStatus_upload",
                          !.trace = @ \o <<"TOO_LARGE", "UPLOADING">>], Status(MsgUploading, ""))
    ELSE IF stats[1] = 0 THEN catch(checking, ErrEmpty)
    ELSE updateStatus([checking EXCEPT !.pc = "updateStatus_upload",
                          !.trace = Append(@, "UPLOADING")], Status(MsgUploading, ""))

\* Step 3, after ffmpeg resolved: the size check
sizeCheck(h, files, uid) ==
    LET stats == statSize(files, outputPath(uid, h.mode))
        checking == [h EXCEPT !.trace = Append(@, "SIZE_CHECK"), !.stats = stats]
    IN
    IF stats = <<>> THEN catch(checking, ErrStat)
    ELSE IF stats[1] > TELEGRAM_FILE_LIMIT
    THEN updateStatus([checking EXCEPT !.pc = "updateStatus_tooLarge",
                          !.trace = Append(@, "TOO_LARGE")], Status(MsgTooLarge, ""))
    ELSE IF stats[1] = 0 THEN catch(checking, ErrEmpty)
    ELSE updateStatus([checking EXCEPT !.pc = "updateStatus_upload",
                          !.trace = Append(@, "UPLOADING")], Status(MsgUploading, ""))

\* ffmpeg exits, leaving its output file or none; then the size check
CutExited(i, outcome) ==
    LET h == cb[i]
        files == IF outcome.out = <<>> THEN fs
                 ELSE writeFile(fs, outputPath(i, h.mode), outcome.out[1])
    IN
    /\ h.pc = "ffmpeg"
    /\ fs' = files
    /\ cb' = [cb EXCEPT ![i] =
                IF outcome.exit # 0 THEN catch(h, ErrCutTool(outcome.stderrYtDlp))
                ELSE sizeCheck(h, files, i)]
    /\ UNCHANGED <<pendingRequests, nMsg, nCb>>

\* durationOption with the operands of the subtraction exchanged
durationOptionReversed(startTime, endTime) ==
    LET duration == toSeconds(startTime) - toSeconds(endTime)
    IN IF duration > 0 THEN <<duration>> ELSE <<>>

\* the duration option of sendAudio / sendVideo: <<>> for undefined
durationOption(startTime, endTime) ==
    LET duration == toSeconds(endTime) - toSeconds(startTime)
    IN IF duration > 0 THEN <<duration>> ELSE <<>>

\* Step 4: the status is shown, the clip is sent
UploadStarted(i) ==
    LET h == cb[i] IN
    /\ h.pc = "updateStatus_upload"
    /\ cb' = [cb EXCEPT ![i].pc = "send",
                        ![i].sent = Append(@,
                            [method |-> IF h.mode = "audio" THEN "sendAudio" ELSE "sendVideo",
                             duration |-> durationOption(h.request.startTime, h.request.endTime)])]
    /\ UNCHANGED <<pendingRequests, nMsg, nCb, fs>>

\* sendAudio / sendVideo settles
UploadSettled(i, ok) ==
    LET h == cb[i] IN
    /\ h.pc = "send"
    /\ cb' = [cb EXCEPT ![i] =
                IF ok THEN updateStatus([h EXCEPT !.pc = "updateStatus_done",
                                     !.trace = Append(@, "DONE")], Status(MsgDone, ""))
                ELSE catch(h, ErrSend)]
    /\ UNCHANGED <<pendingRequests, nMsg, nCb, fs>>

\* the files of one invocation
FilesOf(files, uid) == {f \in files : f.uid = uid}

\* the sets of paths of the invocation's files whose unlinkSync may throw
FailingSets(files, uid) ==
    {F \in SUBSET {pathOf(f) : f \in FilesOf(files, uid)} :
        Cardinality(F) <= MaxUnlinkFailures}

\* Finished that puts the request of a failed pipeline back into the store
FinishedRestoresFailed(i, failing, readdirOk) ==
    LET h == cb[i] IN
    /\ h.pc \in {"updateStatus_tooLarge", "updateStatus_done", "updateStatus_failed"}
    /\ fs' = cleanup(fs, i, h.mode, failing, readdirOk)
    /\ cb' = [cb EXCEPT ![i].pc = "returned",
                        ![i].unlinkThrew =
                            {p \in failing : readdirOk \/ p \in {downloadPath(i, h.mode),
                                                                 outputPath(i, h.mode)}},
                        ![i].readdirThrew = ~readdirOk]
    /\ pendingRequests' =
          IF h.pc = "updateStatus_failed" THEN put(pendingRequests, h.chat, h.request)
          ELSE pendingRequests
    /\ UNCHANGED <<nMsg, nCb>>

\* the last updateStatus (too large, done or failed) settles; the finally
\* block removes the files and processClip returns
Finished(i, failing, readdirOk) ==
    LET h == cb[i] IN
    /\ h.pc \in {"updateStatus_tooLarge", "updateStatus_done", "updateStatus_failed"}
    /\ fs' = cleanup(fs, i, h.mode, failing, readdirOk)
    /\ cb' = [cb EXCEPT ![i].pc = "returned",
                        ![i].unlinkThrew =
                            {p \in failing : readdirOk \/ p \in {downloadPath(i, h.mode),
                                                                 outputPath(i, h.mode)}},
                        ![i].readdirThrew = ~readdirOk]
    /\ UNCHANGED <<pendingRequests, nMsg, nCb>>

(***************************************************************************)
(* The whole program: messages, format choices and pipelines, with the     *)
(* external tools either succeeding or failing.                            *)
(***************************************************************************)
BasicDownloadOutcomes ==
    {[exit |-> 0, exts |-> {"mp4"}, stderrFfmpeg |-> FALSE],
     [exit |-> 1, exts |-> {}, stderrFfmpeg |-> FALSE]}

BasicCutOutcomes ==
    {[exit |-> 0, out |-> <<1>>, stderrYtDlp |-> FALSE],
     [exit |-> 1, out |-> <<>>, stderrYtDlp |-> FALSE]}

NoHistory == UNCHANGED <<lastComplete, lastMsg, call>>

Next ==
    \/ \E chat \in Chats, text \in Texts : OnMessage(chat, text) /\ RecordComplete(chat, text) /\ UNCHANGED <<lastMsg, call>>
    \/ \E chat \in Chats, data \in CallbackData : OnCallbackQuery(chat, data) /\ NoHistory
    \/ \E i \in Handlers, ok \in BOOLEAN : AnswerSettled(i, ok) /\ NoHistory
    \/ \E i \in Handlers : ReplyMarkupSettled(i) /\ NoHistory
    \/ \E i \in Handlers, ok \in BOOLEAN : StatusMessageSettled(i, ok) /\ NoHistory
    \/ \E i \in Handlers : DownloadStarted(i) /\ NoHistory
    \/ \E i \in Handlers, outcome \in BasicDownloadOutcomes :
          DownloadExited(i, outcome) /\ NoHistory
    \/ \E i \in Handlers : CutStarted(i) /\ NoHistory
    \/ \E i \in Handlers, outcome \in BasicCutOutcomes : CutExited(i, outcome) /\ NoHistory
    \/ \E i \in Handlers : UploadStarted(i) /\ NoHistory
    \/ \E i \in Handlers, ok \in BOOLEAN : UploadSettled(i, ok) /\ NoHistory
    \/ \E i \in Handlers : Finished(i, {}, TRUE) /\ NoHistory

Spec == Init /\ [][Next]_vars

(***************************************************************************)
(* The message handler alone, with the text of the last message kept.      *)
(***************************************************************************)
NextMsg ==
    \E chat \in Chats, text \in Texts :
        /\ OnMessage(chat, text) /\ RecordComplete(chat, text) /\ RecordMessage(chat, text)
        /\ UNCHANGED call

SpecMsg == Init /\ [][NextMsg]_vars

(***************************************************************************)
(* The pipeline alone: MaxClips format choices, one per chat, have taken   *)
(* their requests and await the status message; from there processClip     *)
(* runs with every outcome of the tools and of the file system.            *)
(***************************************************************************)
\* the requests a message of the model can store
StoredRequests == {e.request : e \in {x \in {Extracted[t] : t \in Texts} : x.complete}}

\* handler i of the pipeline specification serves this chat
ClipChat(i) == ((i - 1) % Cardinality(Chats)) + 1

ClipHandlers(i) ==
    {[IdleHandler EXCEPT !.pc = "sendMessage", !.chat = ClipChat(i), !.data = data,
                         !.mode = modeOf(data), !.request = request, !.seq = i] :
        data \in {"format_audio", "format_video"}, request \in StoredRequests}

InitClip ==
    /\ pendingRequests = [c \in Chats |-> NoRequest]
    /\ nMsg = MaxClips
    /\ nCb = MaxClips
    /\ cb \in {f \in [Handlers -> {IdleHandler} \cup UNION {ClipHandlers(i) : i \in 1..MaxClips}] :
                 \A i \in Handlers :
                    IF i <= MaxClips THEN f[i] \in ClipHandlers(i) ELSE f[i] = IdleHandler}
    /\ fs = {}
    /\ lastComplete = [c \in Chats |->
          IF \E i \in 1..MaxClips : cb[i].chat = c
          THEN LET i == CHOOSE j \in 1..MaxClips :
                          cb[j].chat = c /\ \A k \in 1..MaxClips : cb[k].chat = c => k <= j
               IN [seq |-> cb[i].seq, request |-> cb[i].request, replaced |-> FALSE]
          ELSE NoComplete]
    /\ lastMsg = NoMessage
    /\ call = NoCall

NextClip ==
    \/ \E i \in Handlers, ok \in BOOLEAN : StatusMessageSettled(i, ok) /\ NoHistory
    \/ \E i \in Handlers : DownloadStarted(i) /\ NoHistory
    \/ \E i \in Handlers, outcome \in DownloadOutcomes : DownloadExited(i, outcome) /\ NoHistory
    \/ \E i \in Handlers : CutStarted(i) /\ NoHistory
    \/ \E i \in Handlers, outcome \in CutOutcomes : CutExited(i, outcome) /\ NoHistory
    \/ \E i \in Handlers : UploadStarted(i) /\ NoHistory
    \/ \E i \in Handlers, ok \in BOOLEAN : UploadSettled(i, ok) /\ NoHistory
    \/ \E i \in Handlers, readdirOk \in BOOLEAN :
          \E failing \in FailingSets(fs, i) : Finished(i, failing, readdirOk) /\ NoHistory

SpecClip == InitClip /\ [][NextClip]_vars

(***************************************************************************)
(* The whole program with tools that may never exit.  runCommand sets no   *)
(* timeout: its promise settles only in the callback of execFile.  Every   *)
(* handler whose awaited call has settled is resumed by the event loop.    *)
(***************************************************************************)
\* the tool handler i awaits never exits
ToolHangs(i) ==
    /\ cb[i].pc \in {"yt-dlp", "ffmpeg"}
    /\ ~cb[i].toolHangs
    /\ cb' = [cb EXCEPT ![i].toolHangs = TRUE]
    /\ UNCHANGED <<pendingRequests, nMsg, nCb, fs>>

\* the continuation of handler i after the call it awaits has settled
Continues(i) ==
    \/ \E ok \in BOOLEAN : AnswerSettled(i, ok)
    \/ ReplyMarkupSettled(i)
    \/ \E ok \in BOOLEAN : StatusMessageSettled(i, ok)
    \/ DownloadStarted(i)
    \/ \E outcome \in BasicDownloadOutcomes : DownloadExited(i, outcome)
    \/ CutStarted(i)
    \/ \E outcome \in BasicCutOutcomes : CutExited(i, outcome)
    \/ UploadStarted(i)
    \/ \E ok \in BOOLEAN : UploadSettled(i, ok)
    \/ Finished(i, {}, TRUE)

\* Resumes if the tools were run with a call that blocks the event loop:
\* nothing is resumed while a tool of another handler runs
ResumesWhenNoToolRuns(i) ==
    /\ ~cb[i].toolHangs
    /\ \A k \in Handlers \ {i} : cb[k].pc \notin {"yt-dlp", "ffmpeg"}
    /\ Continues(i)
    /\ NoHistory

\* the event loop resumes handler i, whatever the other handlers wait for
Resumes(i) ==
    /\ ~cb[i].toolHangs
    /\ Continues(i)
    /\ NoHistory

HangTexts == {TextClip, TextNeither}

\* the conversations of the pipelines in flight at the start, and the others
ClipChats == {ClipChat(i) : i \in 1..MaxClips}

OtherChats == Chats \ ClipChats

\* MaxClips pipelines are in flight for the request of TextClip; the other
\* conversations have sent nothing yet
InitHang ==
    /\ pendingRequests = [c \in Chats |-> NoRequest]
    /\ nMsg = MaxClips
    /\ nCb = MaxClips
    /\ cb \in {f \in [Handlers -> {IdleHandler} \cup UNION {ClipHandlers(i) : i \in 1..MaxClips}] :
                 \A i \in Handlers :
                    IF i <= MaxClips
                    THEN f[i] \in ClipHandlers(i) /\ f[i].request = Extracted[TextClip].request
                    ELSE f[i] = IdleHandler}
    /\ fs = {}
    /\ lastComplete = [c \in Chats |->
          IF c \in ClipChats
          THEN [seq |-> CHOOSE i \in 1..MaxClips : ClipChat(i) = c /\ \A k \in 1..MaxClips : ClipChat(k) = c => k <= i,
                request |-> Extracted[TextClip].request, replaced |-> FALSE]
          ELSE NoComplete]
    /\ lastMsg = NoMessage
    /\ call = NoCall

NextHang ==
    \/ \E chat \in OtherChats, text \in HangTexts :
          OnMessage(chat, text) /\ RecordComplete(chat, text) /\ UNCHANGED <<lastMsg, call>>
    \/ \E chat \in OtherChats, data \in CallbackData : OnCallbackQuery(chat, data) /\ NoHistory
    \/ \E i \in Handlers : Resumes(i)
    \/ \E i \in Handlers : ToolHangs(i) /\ NoHistory

SpecHang == InitHang /\ [][NextHang]_vars /\ \A i \in Handlers : WF_vars(Resumes(i))

(***************************************************************************)
(* normaliseTimestamp alone: it is called with a string made of up to      *)
(* MaxGroups groups joined by ':' or '.', and returns.                     *)
(***************************************************************************)
MaxGroups == 4

\* The groups the inputs are made of.  For each: its text, whether it is a
\* number, the number, and the number written with at least two digits.
NormGroups ==
    <<[text |-> <<>>, numeric |-> FALSE, value |-> 0, padded |-> <<>>],
      [text |-> <<"x">>, numeric |-> FALSE, value |-> 0, padded |-> <<>>],
      [text |-> <<"0">>, numeric |-> TRUE, value |-> 0, padded |-> <<"0", "0">>],
      [text |-> <<"5">>, numeric |-> TRUE, value |-> 5, padded |-> <<"0", "5">>],
      [text |-> <<"0", "7">>, numeric |-> TRUE, value |-> 7, padded |-> <<"0", "7">>],
      [text |-> <<"5", "9">>, numeric |-> TRUE, value |-> 59, padded |-> <<"5", "9">>],
      [text |-> <<"6", "0">>, numeric |-> TRUE, value |-> 60, padded |-> <<"6", "0">>],
      [text |-> <<"1", "0", "0">>, numeric |-> TRUE, value |-> 100, padded |-> <<"1", "0", "0">>],
      [text |-> <<"-", "1">>, numeric |-> TRUE, value |-> 0 - 1, padded |-> <<"-", "1">>]>>

\* the groups parts[k..] joined, the separators alternating from sep on
RECURSIVE JoinGroups(_, _, _)
JoinGroups(parts, k, sep) ==
    IF k > Len(parts) THEN <<>>
    ELSE IF k = Len(parts) THEN NormGroups[parts[k]].text
    ELSE NormGroups[parts[k]].text \o <<sep>>
            \o JoinGroups(parts, k + 1, IF sep = ":" THEN "." ELSE ":")

GroupSeqs == UNION {[1..n -> 1..Len(NormGroups)] : n \in 1..MaxGroups}

NormCalls ==
    {[fn |-> "normaliseTimestamp", parts |-> parts, arg |-> JoinGroups(parts, 1, sep),
      returned |-> FALSE, result |-> <<>>] : parts \in GroupSeqs, sep \in {":", "."}}

NoProgram == UNCHANGED <<pendingRequests, nMsg, nCb, cb, fs, lastComplete, lastMsg>>

InitNorm ==
    /\ pendingRequests = [c \in Chats |-> NoRequest]
    /\ nMsg = 0
    /\ nCb = 0
    /\ cb = [i \in Handlers |-> IdleHandler]
    /\ fs = {}
    /\ lastComplete = [c \in Chats |-> NoComplete]
    /\ lastMsg = NoMessage
    /\ call \in NormCalls

NormaliseReturns ==
    /\ call.fn = "normaliseTimestamp"
    /\ ~call.returned
    /\ call' = [call EXCEPT !.returned = TRUE, !.result = normaliseTimestamp(call.arg)]
    /\ NoProgram

NextNorm == NormaliseReturns

SpecNorm == InitNorm /\ [][NextNorm]_vars

(***************************************************************************)
(* extractTimestamps alone: it is called with a text of up to MaxTokens    *)
(* words separated by blanks, and returns.                                 *)
(***************************************************************************)
MaxTokens == 4

\* The words the texts are made of.  For each: its text, whether tsPattern
\* matches in it (it then matches once), and for a match the HH:MM:SS it
\* stands for, <<>> when its seconds or minutes are out of range.
PairTokens ==
    <<[text |-> <<"t", "o">>, candidate |-> FALSE, normal |-> <<>>],
      [text |-> <<"5">>, candidate |-> FALSE, normal |-> <<>>],
      [text |-> <<"0", ":", "1", "0">>, candidate |-> TRUE,
       normal |-> <<"0", "0", ":", "0", "0", ":", "1", "0">>],
      [text |-> <<"0", ":", "7", "0">>, candidate |-> TRUE, normal |-> <<>>],
      [text |-> <<"1", ".", "0", "5">>, candidate |-> TRUE,
       normal |-> <<"0", "0", ":", "0", "1", ":", "0", "5">>],
      [text |-> <<"2", ":", "4", "5">>, candidate |-> TRUE,
       normal |-> <<"0", "0", ":", "0", "2", ":", "4", "5">>],
      [text |-> <<"1", ":", "2", ":", "3", ":", "4">>, candidate |-> TRUE,
       normal |-> <<"0", "1", ":", "0", "2", ":", "0", "3">>]>>

\* the words parts[k..] with a blank between them
RECURSIVE JoinTokens(_, _)
JoinTokens(parts, k) ==
    IF k > Len(parts) THEN <<>>
    ELSE IF k = Len(parts) THEN PairTokens[parts[k]].text
    ELSE PairTokens[parts[k]].text \o <<" ">> \o JoinTokens(parts, k + 1)

TokenSeqs == UNION {[1..n -> 1..Len(PairTokens)] : n \in 0..MaxTokens}

PairCalls ==
    {[fn |-> "extractTimestamps", parts |-> parts, arg |-> JoinTokens(parts, 1),
      returned |-> FALSE, result |-> <<>>] : parts \in TokenSeqs}

InitPair ==
    /\ pendingRequests = [c \in Chats |-> NoRequest]
    /\ nMsg = 0
    /\ nCb = 0
    /\ cb = [i \in Handlers |-> IdleHandler]
    /\ fs = {}
    /\ lastComplete = [c \in Chats |-> NoComplete]
    /\ lastMsg = NoMessage
    /\ call \in PairCalls

ExtractReturns ==
    /\ call.fn = "extractTimestamps"
    /\ ~call.returned
    /\ call' = [call EXCEPT !.returned = TRUE, !.result = extractTimestamps(call.arg)]
    /\ NoProgram

NextPair == ExtractReturns

SpecPair == InitPair /\ [][NextPair]_vars

(***************************************************************************)
(* Properties.                                                             *)
(***************************************************************************)
Last(seq) == seq[Len(seq)]

Range(seq) == {seq[k] : k \in 1..Len(seq)}

\* processClip was called by handler i and has returned
Ended(i) == cb[i].pc = "returned" /\ cb[i].trace # <<>>

\* the files of invocation i that are still in TMP_DIR
Remaining(i) == FilesOf(fs, i)

\* a remaining file whose deletion failed: its unlinkSync threw, or it is an
\* extension variant and the directory listing of cleanupGlob threw
DeletionFailed(i, f) ==
    \/ pathOf(f) \in cb[i].unlinkThrew
    \/ /\ cb[i].readdirThrew
       /\ f.base = "raw"
       /\ pathOf(f) # downloadPath(i, cb[i].mode)

\* C1, as claimed: when processClip has ended, whatever its outcome, no
\* transient file of the invocation remains.
C1_NoTransientFileRemains ==
    \A i \in Handlers : Ended(i) => Remaining(i) = {}

\* C1, amended: when processClip has ended, whatever its outcome, every
\* transient file of the invocation (output file, expected download path,
\* every file with the download's base name) is gone, except a file whose
\* deletion failed; that failure is swallowed and the file stays.
C1_OnlyFailedDeletionsRemain ==
    \A i \in Handlers : Ended(i) => \A f \in Remaining(i) : DeletionFailed(i, f)

\* a failed invocation that had downloaded under a variant extension and
\* left a partial file has ended with none of its files remaining
C1_Witness ==
    \E i \in Handlers :
        /\ Ended(i)
        /\ Last(cb[i].trace) = "FAILED"
        /\ cb[i].actualDownload.ext = "mkv"
        /\ Remaining(i) = {}

\* C2: an output file of exactly 0 bytes drives the pipeline to FAILED with
\* the message that the timestamps may be outside the video duration, never
\* to TOO_LARGE, and nothing is uploaded for it.
C2_EmptyOutputFails ==
    \A i \in Handlers :
        cb[i].stats = <<0>> =>
            /\ Last(cb[i].trace) = "FAILED"
            /\ "TOO_LARGE" \notin Range(cb[i].trace)
            /\ "UPLOADING" \notin Range(cb[i].trace)
            /\ cb[i].status =
                  Status("Error: ", "Output file is empty - the timestamps may be outside the video duration.")
            /\ cb[i].sent = <<>>

C2_Witness ==
    \E i \in Handlers : cb[i].stats = <<0>> /\ Ended(i)

\* the part of C3 that does not concern the files: an output larger than
\* the limit ends in TOO_LARGE with the advice as the status, no upload, no
\* failure, no tool run again; and an upload happens only for a size s with
\* 0 < s <= 52,428,800
C3_SizeCeiling(i) ==
    /\ (cb[i].stats # <<>> /\ cb[i].stats[1] > 52428800) =>
          /\ Last(cb[i].trace) = "TOO_LARGE"
          /\ cb[i].status = Status(MsgTooLarge, "")
          /\ cb[i].sent = <<>>
          /\ cb[i].err = NoError
          /\ cb[i].tools = <<"yt-dlp", "ffmpeg">>
    /\ cb[i].sent # <<>> =>
          /\ cb[i].stats # <<>>
          /\ cb[i].stats[1] > 0
          /\ cb[i].stats[1] <= 52428800

TooLargeEnded(i) ==
    Ended(i) /\ cb[i].stats # <<>> /\ cb[i].stats[1] > 52428800

\* C3, as claimed: ... and the temp files are removed.
C3_TooLargeAndFilesRemoved ==
    \A i \in Handlers :
        C3_SizeCeiling(i) /\ (TooLargeEnded(i) => Remaining(i) = {})

\* C3, amended: ... and the temp files are removed, except a file whose
\* deletion failed.
C3_TooLargeAndFilesRemovedUnlessFailed ==
    \A i \in Handlers :
        C3_SizeCeiling(i)
            /\ (TooLargeEnded(i) => \A f \in Remaining(i) : DeletionFailed(i, f))

\* an invocation whose output was 60 MiB has ended and left no file
C3_Witness ==
    \E i \in Handlers :
        TooLargeEnded(i) /\ cb[i].stats = <<60 * 1024 * 1024>> /\ Remaining(i) = {}

\* the transitions between the stages
StageOrder ==
    {<<"DOWNLOADING", "CUTTING">>, <<"CUTTING", "SIZE_CHECK">>,
     <<"SIZE_CHECK", "UPLOADING">>, <<"UPLOADING", "DONE">>,
     <<"SIZE_CHECK", "TOO_LARGE">>,
     <<"DOWNLOADING", "FAILED">>, <<"CUTTING", "FAILED">>,
     <<"SIZE_CHECK", "FAILED">>, <<"UPLOADING", "FAILED">>}

InStageOrder(trace) ==
    /\ trace # <<>> => trace[1] = "DOWNLOADING"
    /\ \A k \in 1..(Len(trace) - 1) : <<trace[k], trace[k + 1]>> \in StageOrder

Terminal(trace) == trace # <<>> /\ Last(trace) \in {"DONE", "FAILED", "TOO_LARGE"}

\* C4: every invocation goes through its stages only in the order
\* DOWNLOADING, CUTTING, SIZE_CHECK, UPLOADING, DONE; TOO_LARGE is entered
\* only from SIZE_CHECK, FAILED only from one of the four stages; and after
\* DONE, FAILED or TOO_LARGE no stage runs, no tool is started and nothing
\* is uploaded.
C4_StagesInOrder ==
    [][\A i \in Handlers :
          /\ InStageOrder(cb'[i].trace)
          /\ Terminal(cb[i].trace) =>
                /\ cb'[i].trace = cb[i].trace
                /\ cb'[i].tools = cb[i].tools
                /\ cb'[i].sent = cb[i].sent]_vars

\* an invocation has failed in the upload stage and ended
C4_Witness ==
    \E i \in Handlers :
        /\ Ended(i)
        /\ cb[i].trace = <<"DOWNLOADING", "CUTTING", "SIZE_CHECK", "UPLOADING", "FAILED">>

\* C5: every request in the store has its start strictly before its end.
C5_StoredStartBeforeEnd ==
    \A c \in Chats :
        pendingRequests[c] # NoRequest =>
            toSeconds(pendingRequests[c].startTime) < toSeconds(pendingRequests[c].endTime)

\* the store holds the request of "... from 1.05 to 1:02:03"
C5_Witness ==
    \E c \in Chats :
        /\ pendingRequests[c] # NoRequest
        /\ toSeconds(pendingRequests[c].startTime) = 65
        /\ toSeconds(pendingRequests[c].endTime) = 3723

\* C6: a stored request is taken by at most one format-choice handler, so at
\* most one pipeline is started for it, however the handlers interleave.
C6_TakenAtMostOnce ==
    \A i, j \in Handlers :
        (i # j /\ cb[i].seq # 0) => cb[i].seq # cb[j].seq

\* two format choices of one conversation: one took the request and started
\* its pipeline, the other found nothing
C6_Witness ==
    \E i, j \in Handlers :
        /\ i # j
        /\ cb[i].chat = cb[j].chat
        /\ cb[i].seq # 0
        /\ cb[i].trace # <<>>
        /\ cb[j].sendMessage = MsgNoPending

\* C7: a format choice that finds no pending request for its conversation
\* replies that a link with timestamps must be sent first and returns; it
\* starts no pipeline, creates no status message and leaves the store as it is.
C7_NoPendingRejected ==
    [][\A i \in Handlers :
          /\ (/\ cb[i].pc = "answerCallbackQuery"
              /\ cb'[i].pc \notin {"answerCallbackQuery", "rejected"}
              /\ pendingRequests[cb[i].chat] = NoRequest) =>
                /\ cb'[i].sendMessage = MsgNoPending
                /\ cb'[i].pc = "returned"
                /\ cb'[i].trace = <<>>
                /\ pendingRequests' = pendingRequests
          /\ cb[i].sendMessage = MsgNoPending => cb'[i] = cb[i]]_vars

\* a format choice was rejected in a conversation whose last complete
\* message had already been consumed
C7_Witness ==
    \E i \in Handlers :
        /\ cb[i].sendMessage = MsgNoPending
        /\ lastComplete[cb[i].chat].seq # 0

ReplyKinds == {"format_prompt", "start_before_end", "need_timestamps", "need_url", "help"}

\* C8: a text message gets exactly one of the five replies, decided by what
\* was extracted from it, and the store is written if and only if a link and
\* a pair were both extracted and start < end; otherwise the store is
\* unchanged.
C8_MessageOutcomes ==
    [][nMsg' # nMsg =>
          LET text == lastMsg'.text
              chat == lastMsg'.chat
              hasUrl == Extracted[text].url # NoUrl
              hasPair == Extracted[text].timestamps # NoTimestamps
              ordered == /\ hasUrl
                         /\ hasPair
                         /\ toSeconds(Extracted[text].timestamps.startTime)
                               < toSeconds(Extracted[text].timestamps.endTime)
          IN
          /\ text # NoText =>
                /\ lastMsg'.reply \in ReplyKinds
                /\ lastMsg'.reply = "format_prompt" <=> ordered
                /\ lastMsg'.reply = "start_before_end" <=> (hasUrl /\ hasPair /\ ~ordered)
                /\ lastMsg'.reply = "need_timestamps" <=> (hasUrl /\ ~hasPair)
                /\ lastMsg'.reply = "need_url" <=> (~hasUrl /\ hasPair)
                /\ lastMsg'.reply = "help" <=> (~hasUrl /\ ~hasPair)
          /\ IF text # NoText /\ ordered
             THEN pendingRequests' = [pendingRequests EXCEPT ![chat] = Extracted[text].request]
             ELSE pendingRequests' = pendingRequests]_vars

\* a message was rejected for start >= end while a request was pending, and
\* the request is still pending
C8_Witness ==
    /\ lastMsg.reply = "start_before_end"
    /\ pendingRequests[lastMsg.chat] # NoRequest

\* C9: one entry per conversation, and put overwrites: a complete message
\* makes its request the conversation's entry and touches no other entry; a
\* format choice that takes a request takes the one of the conversation's
\* most recent complete message, touches no other entry, and its pipeline
\* keeps that request.
C9_LatestCompleteMessageWins ==
    [][/\ \A c \in Chats :
             lastComplete'[c] # lastComplete[c] =>
                /\ pendingRequests'[c] = lastComplete'[c].request
                /\ \A d \in Chats \ {c} : pendingRequests'[d] = pendingRequests[d]
       /\ \A i \in Handlers :
             /\ (cb[i].pc = "answerCallbackQuery" /\ cb'[i].pc = "editMessageReplyMarkup") =>
                   /\ cb'[i].request = lastComplete[cb[i].chat].request
                   /\ cb'[i].seq = lastComplete[cb[i].chat].seq
                   /\ \A d \in Chats \ {cb[i].chat} : pendingRequests'[d] = pendingRequests[d]
             /\ cb[i].request # NoRequest => cb'[i].request = cb[i].request]_vars

\* a pipeline runs with the request of a message that replaced a pending one
C9_Witness ==
    \E i \in Handlers :
        /\ cb[i].trace # <<>>
        /\ cb[i].seq = lastComplete[cb[i].chat].seq
        /\ lastComplete[cb[i].chat].replaced
        /\ cb[i].request = lastComplete[cb[i].chat].request

ClipSeconds(i) == toSeconds(cb[i].request.endTime) - toSeconds(cb[i].request.startTime)

\* C11: every upload carries the duration toSeconds(endTime) -
\* toSeconds(startTime), omitted exactly when that difference is not
\* positive; and as every dispatched request has start < end, the duration
\* of every upload is there and strictly positive.
C11_UploadDuration ==
    \A i \in Handlers :
        \A k \in 1..Len(cb[i].sent) :
            /\ cb[i].sent[k].duration =
                  IF ClipSeconds(i) > 0 THEN <<ClipSeconds(i)>> ELSE <<>>
            /\ cb[i].sent[k].duration # <<>>
            /\ cb[i].sent[k].duration[1] > 0

\* the clip from 00:00:10 to 00:00:30 was uploaded with the duration 20
C11_Witness ==
    \E i \in Handlers :
        /\ cb[i].sent # <<>>
        /\ cb[i].request.startTime = <<"0", "0", ":", "0", "0", ":", "1", "0">>
        /\ cb[i].request.endTime = <<"0", "0", ":", "0", "0", ":", "3", "0">>
        /\ cb[i].sent[1].duration = <<20>>

\* the groups of the call read right-to-left as seconds, minutes, hours
FieldOf(parts, fromRight) ==
    IF fromRight <= Len(parts) THEN NormGroups[parts[Len(parts) + 1 - fromRight]]
    ELSE NormGroups[3]

\* an input the claim calls invalid: a group that is not a number (the empty
\* group among them), more than 3 groups, minutes or seconds outside 0..59,
\* or negative hours
InvalidInput(parts) ==
    \/ \E k \in 1..Len(parts) : ~NormGroups[parts[k]].numeric
    \/ Len(parts) > 3
    \/ FieldOf(parts, 1).value \notin 0..59
    \/ FieldOf(parts, 2).value \notin 0..59
    \/ FieldOf(parts, 3).value < 0

\* C12: normaliseTimestamp returns invalid for every input with a group that
\* is not a number (an empty group included), more than 3 groups, minutes or
\* seconds outside 0..59, or negative hours; for every other input it
\* returns the zero-padded HH:MM:SS of its groups read right-to-left as
\* seconds, minutes, hours.
C12_NormaliseRejectsOrPads ==
    (call.fn = "normaliseTimestamp" /\ call.returned) =>
        call.result =
            IF InvalidInput(call.parts) THEN NoTimestamp
            ELSE FieldOf(call.parts, 3).padded \o <<":">>
                    \o FieldOf(call.parts, 2).padded \o <<":">>
                    \o FieldOf(call.parts, 1).padded

IsCandidate(k) == PairTokens[k].candidate

\* the candidates of the call's text, left to right
Candidates(parts) == SelectSeq(parts, IsCandidate)

\* what the first two candidates give: none when either fails normalisation
FromFirstTwo(first, second) ==
    IF first.normal = <<>> \/ second.normal = <<>> THEN NoTimestamps
    ELSE [startTime |-> first.normal, endTime |-> second.normal]

\* C13: extractTimestamps uses only the first two candidates of the text, in
\* left-to-right order, as start and end; it returns none when there are
\* fewer than two candidates or when either of the first two fails
\* normalisation, and never puts a later candidate in the place of a failed
\* one.
C13_FirstTwoCandidatesOnly ==
    (call.fn = "extractTimestamps" /\ call.returned) =>
        call.result =
            IF Len(Candidates(call.parts)) < 2 THEN NoTimestamps
            ELSE FromFirstTwo(PairTokens[Candidates(call.parts)[1]],
                              PairTokens[Candidates(call.parts)[2]])

\* "0:70 0:10 2:45": the first candidate fails, two good ones follow, and
\* the call returned none
C13_Witness ==
    /\ call.fn = "extractTimestamps"
    /\ call.returned
    /\ call.parts = <<4, 3, 6>>
    /\ call.result = NoTimestamps

\* the status text shown on entering a stage
ShownFor(stage, text) ==
    CASE stage = "DOWNLOADING" -> text = Status(MsgDownloading, "")
      [] stage = "CUTTING" -> text = Status(MsgCutting, "")
      [] stage = "TOO_LARGE" -> text = Status(MsgTooLarge, "")
      [] stage = "UPLOADING" -> text = Status(MsgUploading, "")
      [] stage = "DONE" -> text = Status(MsgDone, "")
      [] stage = "FAILED" -> text.text \in {MsgDownloadFailed, MsgCutFailed, "Error: "}
      [] OTHER -> FALSE

\* the status updates of handler i are one per stage of `stages`, in order,
\* each an edit of the status message created for i, and the only message
\* the handler has sent is that status message
EditsFollow(i, stages) ==
    /\ Len(cb[i].edits) = Len(stages)
    /\ \A k \in 1..Len(cb[i].edits) :
          /\ k <= Len(stages) => ShownFor(stages[k], cb[i].edits[k].text)
          /\ cb[i].edits[k].message_id = i
    /\ cb[i].trace # <<>> => cb[i].sendMessage = MsgProcessing

NotSizeCheck(stage) == stage # "SIZE_CHECK"

\* C14, as claimed: every transition of an invocation, into DOWNLOADING,
\* CUTTING, SIZE_CHECK, UPLOADING, DONE, FAILED and TOO_LARGE, emits a status
\* update; every status update is an edit of the one status message of the
\* invocation, and the pipeline sends no new text message.
C14_EveryTransitionUpdatesStatus ==
    \A i \in Handlers : EditsFollow(i, cb[i].trace)

\* C14, amended: every transition of an invocation other than the one into
\* SIZE_CHECK (into DOWNLOADING, CUTTING, UPLOADING, DONE, FAILED and
\* TOO_LARGE) emits a status update, and the transition into SIZE_CHECK emits
\* none; every status update is an edit of the one status message of the
\* invocation, and the pipeline sends no new text message.
C14_TransitionsButSizeCheckUpdateStatus ==
    \A i \in Handlers : EditsFollow(i, SelectSeq(cb[i].trace, NotSizeCheck))

\* an invocation went through all five stages with four edits of its
\* status message and has ended
C14_Witness ==
    \E i \in Handlers :
        /\ Ended(i)
        /\ cb[i].trace = <<"DOWNLOADING", "CUTTING", "SIZE_CHECK", "UPLOADING", "DONE">>
        /\ Len(cb[i].edits) = 4
        /\ cb[i].edits[4] = [message_id |-> i, text |-> Status(MsgDone, "")]

\* C15: a failure is translated by the tool that reported it: one raised by
\* the download tool shows the download explanation, one raised by the trim
\* tool shows the trim explanation, whatever the tool wrote on stderr, and
\* any other failure shows the raw error text.
C15_TranslatedByReportingTool ==
    \A i \in Handlers :
        cb[i].err # NoError =>
            cb[i].status =
                IF cb[i].err.message = "yt-dlp failed: <stderr>"
                THEN Status(MsgDownloadFailed, "")
                ELSE IF cb[i].err.message = "ffmpeg failed: <stderr>"
                THEN Status(MsgCutFailed, "")
                ELSE Status("Error: ", cb[i].err.message)

\* the handler of format choice i has come to its end, by returning or by a
\* rejected await that nothing catches
HandlerEnded(i) == cb[i].pc \in {"returned", "rejected"}

\* C16: a request is never consumed without a pipeline being started for it:
\* a handler that took a request from the store has, when it ends, run
\* processClip for it, also when removing the choice buttons or creating the
\* status message failed.
C16_ConsumedRequestStartsPipeline ==
    \A i \in Handlers :
        (cb[i].request # NoRequest /\ HandlerEnded(i)) =>
            /\ cb[i].trace # <<>>
            /\ "yt-dlp" \in Range(cb[i].tools)

\* handler i took the request of the conversation's most recent complete
\* message: nothing complete was sent since
NoResendSince(i) == cb[i].seq # 0 /\ lastComplete[cb[i].chat].seq = cb[i].seq

\* C17: the pipeline runner never writes the store.  No step of a handler
\* that has taken its request changes any entry; as long as no complete
\* message came after the one it took, its conversation has no entry; and a
\* format choice answered after its pipeline failed, with no resend, is
\* rejected and starts nothing.
C17_PipelineLeavesStoreAlone ==
    [][\A i \in Handlers :
          /\ (cb[i].seq # 0 /\ cb'[i] # cb[i]) => pendingRequests' = pendingRequests
          /\ NoResendSince(i)' => pendingRequests'[cb'[i].chat] = NoRequest
          /\ \A j \in Handlers \ {i} :
                (/\ NoResendSince(i)
                 /\ "FAILED" \in Range(cb[i].trace)
                 /\ cb[j].chat = cb[i].chat
                 /\ cb[j].pc = "answerCallbackQuery"
                 /\ cb'[j].pc \notin {"answerCallbackQuery", "rejected"}) =>
                    /\ cb'[j].sendMessage = MsgNoPending
                    /\ cb'[j].request = NoRequest
                    /\ cb'[j].trace = <<>>]_vars

\* a pipeline failed and ended, no complete message followed, and the next
\* format choice of the conversation was rejected
C17_Witness ==
    \E i, j \in Handlers :
        /\ i # j
        /\ Ended(i)
        /\ Last(cb[i].trace) = "FAILED"
        /\ NoResendSince(i)
        /\ cb[j].chat = cb[i].chat
        /\ cb[j].sendMessage = MsgNoPending
        /\ pendingRequests[cb[i].chat] = NoRequest

\* the step in which the finally block of handler i runs
CleanupStep(i) ==
    /\ cb[i].pc \in {"updateStatus_tooLarge", "updateStatus_done", "updateStatus_failed"}
    /\ cb'[i].pc # cb[i].pc

\* C18: a failure while deleting a transient file is swallowed.  The
\* invocation still returns normally; every other transient file of the
\* invocation is deleted all the same (the extension variants as long as the
\* directory could be listed); and the terminal status shown to the user,
\* with the stages and the error it stands for, stays as it was.
C18_DeletionFailureSwallowed ==
    [][\A i \in Handlers :
          CleanupStep(i) =>
             /\ cb'[i].pc = "returned"
             /\ cb'[i].status = cb[i].status
             /\ cb'[i].edits = cb[i].edits
             /\ cb'[i].sendMessage = cb[i].sendMessage
             /\ cb'[i].trace = cb[i].trace
             /\ cb'[i].err = cb[i].err
             /\ \A f \in FilesOf(fs, i) :
                   (/\ pathOf(f) \notin cb'[i].unlinkThrew
                    /\ \/ ~cb'[i].readdirThrew
                       \/ pathOf(f) \in {downloadPath(i, cb[i].mode), outputPath(i, cb[i].mode)})
                      => f \notin fs']_vars

\* an upload was done, then deleting the output file failed: the file is
\* the only one left, the download is gone and the status is still "Done"
C18_Witness ==
    \E i \in Handlers :
        /\ Ended(i)
        /\ cb[i].unlinkThrew = {outputPath(i, cb[i].mode)}
        /\ {pathOf(f) : f \in Remaining(i)} = {outputPath(i, cb[i].mode)}
        /\ cb[i].status = Status(MsgDone, "")

\* C19: a tool that never exits holds up its own pipeline only.  The handler
\* that awaits it stays where it is for ever; every format choice is still
\* answered, and every pipeline whose own tools exit reaches its end, while
\* the other one hangs.
C19_HangBlocksOnlyItsPipeline ==
    /\ [][\A i \in Handlers : cb[i].toolHangs => cb'[i] = cb[i]]_vars
    /\ \A j \in Handlers :
          /\ (cb[j].pc = "answerCallbackQuery") ~> (cb[j].pc # "answerCallbackQuery")
          /\ (cb[j].trace # <<>>) ~> (cb[j].toolHangs \/ (Terminal(cb[j].trace) /\ Ended(j)))

\* one pipeline hangs in a tool and another one, of a request stored later,
\* is done and has ended
C19_Witness ==
    \E i, j \in Handlers :
        /\ cb[i].toolHangs
        /\ cb[j].seq > cb[i].seq
        /\ Ended(j)
        /\ Last(cb[j].trace) = "DONE"

\* C20: the transient files belong to one invocation.  The files named with
\* the uid of invocation j are created, overwritten and deleted only by
\* steps of handler j, so the cleanup of another invocation removes none of
\* them; and the download an invocation finds and cuts is one of its own.
C20_FilesOwnedByOneInvocation ==
    [][\A j \in Handlers :
          /\ FilesOf(fs', j) # FilesOf(fs, j) => cb'[j] # cb[j]
          /\ cb'[j].actualDownload # NoFile => cb'[j].actualDownload.uid = j]_vars

\* one invocation has ended and removed its files while another, still
\* cutting, has its download on disk
C20_Witness ==
    \E i, j \in Handlers :
        /\ i # j
        /\ Ended(i)
        /\ "CUTTING" \in Range(cb[i].trace)
        /\ Remaining(i) = {}
        /\ cb[j].pc = "ffmpeg"
        /\ \E f \in FilesOf(fs, j) : pathOf(f) = cb[j].actualDownload

====
